---- MODULE Spec2Model ----
(***************************************************************************)
(* Phoenix Virtual Assistant API (main.py): the serializer, the keyword    *)
(* sentiment classifier and the session / message / chat / document        *)
(* handlers over a document store.                                         *)
(*                                                                         *)
(* Strings are sequences of one-character strings, so that "" is <<>>,     *)
(* concatenation is \o and `w in t` is substring search.  A Python value   *)
(* is a record [tag, v]: tag is the Python type, v the payload as a        *)
(* sequence.  A Python dict is a sequence of <<key, value>> pairs with     *)
(* distinct keys, in insertion order.                                      *)
(***************************************************************************)
EXTENDS Integers, Sequences, FiniteSets, TLC

VARIABLES
    dbUp,       \* database.db is not None (fixed when the process starts)
    session,    \* collection "session": records in insertion order
    message,    \* collection "message"
    document,   \* collection "document"
    nextId,     \* next identifier the store assigns
    pc,         \* per chat request in flight: position inside chat()
    loc,        \* per chat request in flight: the locals of chat()
    last,       \* the response of the handler that returned last
    issued,     \* history: message ids returned so far, in order of return
    text,       \* classifier harness: the text under classification
    typed,      \* classifier harness: number of fragments text is made of
    label,      \* classifier harness: result of simple_sentiment(text)
    sdoc,       \* serializer harness: the input dict
    sout1,      \* serializer harness: _serialize(sdoc)
    sout2       \* serializer harness: _serialize(sout1)

vars == <<dbUp, session, message, document, nextId, pc, loc, last, issued,
          text, typed, label, sdoc, sout1, sout2>>

storeVars == <<dbUp, session, message, document, nextId, pc, loc, last, issued>>
textVars == <<text, typed, label>>
serVars == <<sdoc, sout1, sout2>>

----------------------------------------------------------------------------
(* Bounds *)

MaxFragments == 3
MaxFields == 3
MaxIds == 4
MaxDocs == 5
MaxSessions == 3
MaxLimit == 2
NumChats == 2

----------------------------------------------------------------------------
(* Python values *)

None == [tag |-> "null", v |-> <<>>]
\* a request field the client left out
Absent == [tag |-> "absent", v |-> <<>>]
Str(s) == [tag |-> "str", v |-> s]
Oid(n) == [tag |-> "oid", v |-> <<ToString(n)>>]
Datetime(t) == [tag |-> "dt", v |-> <<ToString(t)>>]
Exists(b) == [tag |-> "$exists", v |-> <<IF b THEN "true" ELSE "false">>]
List(l) == [tag |-> "list", v |-> l]

\* str(ObjectId): the identifier rendered as text
StrOfId(val) == Str(val.v)

\* datetime.isoformat(): the timestamp rendered as text
IsoFormat(val) == Str(<<"1970-01-01T00:00:0">> \o val.v)

\* Python truthiness of an Optional[str]
Truthy(val) == val.tag = "str" /\ val.v # <<>>

Min(a, b) == IF a < b THEN a ELSE b

----------------------------------------------------------------------------
(* Python dicts *)

Keys(d) == {d[i][1] : i \in 1..Len(d)}
Has(d, k) == k \in Keys(d)
Get(d, k) == d[CHOOSE i \in 1..Len(d) : d[i][1] = k][2]

\* d[k] = val: an existing key keeps its position, a new key goes last
Put(d, k, val) ==
    IF Has(d, k)
    THEN [i \in 1..Len(d) |-> IF d[i][1] = k THEN <<k, val>> ELSE d[i]]
    ELSE Append(d, <<k, val>>)

\* dict equality does not depend on insertion order
DictEq(a, b) == {a[i] : i \in 1..Len(a)} = {b[i] : i \in 1..Len(b)}

----------------------------------------------------------------------------
(* _serialize *)

\* variant of the loop below that renders null as text
RECURSIVE SerializeLoopStr(_, _, _)
SerializeLoopStr(doc, i, result) ==
    IF i > Len(doc) THEN result
    ELSE LET k == doc[i][1]
             val == doc[i][2]
         IN  SerializeLoopStr(doc, i + 1,
                 IF k = "_id" THEN Put(result, "id", StrOfId(val))
                 ELSE IF val.tag = "dt" THEN Put(result, k, IsoFormat(val))
                 ELSE IF val.tag = "null" THEN Put(result, k, Str(<<"None">>))
                 ELSE Put(result, k, val))

RECURSIVE SerializeLoop(_, _, _)
SerializeLoop(doc, i, result) ==
    IF i > Len(doc) THEN result
    ELSE LET k == doc[i][1]
             val == doc[i][2]
         IN  SerializeLoop(doc, i + 1,
                 IF k = "_id" THEN Put(result, "id", StrOfId(val))
                 ELSE IF val.tag = "dt" THEN Put(result, k, IsoFormat(val))
                 ELSE Put(result, k, val))

_serialize(doc) == IF doc = <<>> THEN doc ELSE SerializeLoop(doc, 1, <<>>)

----------------------------------------------------------------------------
(* simple_sentiment *)

UpperCase == <<"A", "B", "C", "D", "E", "F", "G", "H", "I", "J", "K", "L", "M",
               "N", "O", "P", "Q", "R", "S", "T", "U", "V", "W", "X", "Y", "Z">>
LowerCase == <<"a", "b", "c", "d", "e", "f", "g", "h", "i", "j", "k", "l", "m",
               "n", "o", "p", "q", "r", "s", "t", "u", "v", "w", "x", "y", "z">>

\* str.lower()
Lower(s) ==
    [i \in 1..Len(s) |->
        IF \E j \in 1..26 : UpperCase[j] = s[i]
        THEN LowerCase[CHOOSE j \in 1..26 : UpperCase[j] = s[i]]
        ELSE s[i]]

\* w in t
Contains(w, t) ==
    \E i \in 0..(Len(t) - Len(w)) : SubSeq(t, i + 1, i + Len(w)) = w

pos == << <<"g", "r", "e", "a", "t">>, <<"g", "o", "o", "d">>,
          <<"l", "o", "v", "e">>, <<"a", "w", "e", "s", "o", "m", "e">>,
          <<"t", "h", "a", "n", "k", "s">>, <<"c", "o", "o", "l">>,
          <<"n", "i", "c", "e">> >>
neg == << <<"b", "a", "d">>, <<"h", "a", "t", "e">>,
          <<"t", "e", "r", "r", "i", "b", "l", "e">>,
          <<"a", "w", "f", "u", "l">>, <<"a", "n", "g", "r", "y">>,
          <<"s", "a", "d">>, <<"u", "p", "s", "e", "t">> >>

\* variant of simple_sentiment that skips text.lower()
simple_sentiment_nolower(txt) ==
    LET t == txt
        p == \E i \in 1..Len(pos) : Contains(pos[i], t)
        n == \E i \in 1..Len(neg) : Contains(neg[i], t)
    IN  IF p /\ ~n THEN "positive"
        ELSE IF n /\ ~p THEN "negative"
        ELSE "neutral"

simple_sentiment(txt) ==
    LET t == Lower(txt)
        p == \E i \in 1..Len(pos) : Contains(pos[i], t)
        n == \E i \in 1..Len(neg) : Contains(neg[i], t)
    IN  IF p /\ ~n THEN "positive"
        ELSE IF n /\ ~p THEN "negative"
        ELSE "neutral"

----------------------------------------------------------------------------
(* Classifier harness: every text made of up to MaxFragments fragments; a  *)
(* fragment is a keyword, a keyword in another case, or a single character *)

Fragments ==
    {pos[i] : i \in 1..Len(pos)} \cup {neg[i] : i \in 1..Len(neg)}
    \cup {<<"H", "A", "T", "E">>, <<"L", "o", "v", "e">>}
    \cup {<<"s">>, <<"a">>, <<"d">>, <<" ">>}
NoLabel == "unclassified"

InitText == text = <<>> /\ label = NoLabel /\ typed = 0

TypeFragment ==
    /\ typed < MaxFragments
    /\ \E f \in Fragments : text' = text \o f
    /\ typed' = typed + 1
    /\ label' = NoLabel
    /\ UNCHANGED <<storeVars, serVars>>

Classify ==
    /\ label = NoLabel
    /\ label' = simple_sentiment(text)
    /\ UNCHANGED <<text, typed, storeVars, serVars>>

----------------------------------------------------------------------------
(* Serializer harness: every dict of up to MaxFields fields *)

FieldKeys == {"_id", "id", "title", "last_message_at"}
FieldValues == {None, Str(<<>>), Str(<<"1">>), Oid(1), Datetime(1), List(<<"calm">>)}
NotRun == << <<"not run", None>> >>

InitSer == sdoc = <<>> /\ sout1 = NotRun /\ sout2 = NotRun

PutField ==
    /\ Len(sdoc) < MaxFields
    /\ \E k \in FieldKeys \ Keys(sdoc) : \E val \in FieldValues :
           sdoc' = Put(sdoc, k, val)
    /\ sout1' = NotRun
    /\ sout2' = NotRun
    /\ UNCHANGED <<storeVars, textVars>>

Serialize ==
    /\ sout1 = NotRun
    /\ sout1' = _serialize(sdoc)
    /\ UNCHANGED <<sdoc, sout2, storeVars, textVars>>

SerializeAgain ==
    /\ sout1 # NotRun
    /\ sout2 = NotRun
    /\ sout2' = _serialize(sout1)
    /\ UNCHANGED <<sdoc, sout1, storeVars, textVars>>

----------------------------------------------------------------------------
(* Store gateway: database.create_document / database.get_documents, and   *)
(* the pymongo calls main.py makes on db directly                          *)

\* a filter condition is a value (equality) or an operator such as $exists
MatchCond(rec, k, cond) ==
    IF cond.tag = "$exists"
    THEN Has(rec, k) <=> (cond.v = <<"true">>)
    ELSE Has(rec, k) /\ Get(rec, k) = cond

Matches(rec, filt) == \A i \in 1..Len(filt) : MatchCond(rec, filt[i][1], filt[i][2])

RECURSIVE Select(_, _)
Select(coll, filt) ==
    IF coll = <<>> THEN <<>>
    ELSE IF Matches(Head(coll), filt)
         THEN <<Head(coll)>> \o Select(Tail(coll), filt)
         ELSE Select(Tail(coll), filt)

\* insert-one: the record the store keeps
StoredRecord(data) == Put(data, "_id", Oid(nextId))

\* find-many; limit is {} when the caller passes none, {n} otherwise
get_documents(coll, filt, limit) ==
    LET found == Select(coll, filt)
    IN  IF limit = {} THEN found
        ELSE SubSeq(found, 1, Min(CHOOSE n \in limit : TRUE, Len(found)))

\* collection.update_one(filt, {"$set": {field: val}})
update_one(coll, filt, field, val) ==
    IF \E i \in 1..Len(coll) : Matches(coll[i], filt)
    THEN LET first == CHOOSE i \in 1..Len(coll) :
                          /\ Matches(coll[i], filt)
                          /\ \A j \in 1..(i - 1) : ~Matches(coll[j], filt)
         IN  [coll EXCEPT ![first] = Put(coll[first], field, val)]
    ELSE coll

SerializeAll(recs) == [i \in 1..Len(recs) |-> _serialize(recs[i])]

IdsOf(coll) == {StrOfId(Get(coll[i], "_id")) : i \in 1..Len(coll)}
AllIds == IdsOf(session) \cup IdsOf(message) \cup IdsOf(document)

----------------------------------------------------------------------------
(* Requests and responses *)

DefaultTitle == <<"N", "e", "w", " ", "S", "e", "s", "s", "i", "o", "n">>
DefaultLimit == 50

Good == <<"G", "o", "o", "d">>
SoSad == <<"s", "o", " ", "s", "a", "d">>

Texts == {Good, SoSad}
SessionIds == {Str(<<>>), Str(<<"1">>)}
Titles == {Absent, None, Str(<<>>), Str(<<"W", "o", "r", "k">>)}
UserIds == {None, Str(<<>>), Str(<<"u1">>)}
Limits == {{}} \cup {{n} : n \in 0..MaxLimit}
Times == {1}
Chats == 1..NumChats

\* history kept with a response: the ids in the store when the call began, the
\* identifiers the call inserted, what became of chat's session update, and
\* the limit list_documents applied (omitted: the query carried none)
NoAux == [before |-> {}, inserted |-> <<>>, update |-> "none",
          limit |-> 0, omitted |-> FALSE]
Response(op, status, req, body, aux) ==
    [op |-> op, status |-> status, req |-> req, body |-> body, aux |-> aux]
NoResponse == Response("none", 0, <<>>, <<>>, NoAux)
NoLocals == [payload |-> <<>>, user_sent |-> "", user_msg_id |-> None,
             reply |-> <<>>, assistant_msg_id |-> None,
             before |-> {}, inserted |-> <<>>]

InitStore ==
    /\ dbUp \in BOOLEAN
    /\ session = <<>>
    /\ message = <<>>
    /\ document = <<>>
    /\ nextId = 1
    /\ pc = [r \in Chats |-> "idle"]
    /\ loc = [r \in Chats |-> NoLocals]
    /\ last = NoResponse
    /\ issued = <<>>

----------------------------------------------------------------------------
(* Handlers.  create_document fails when there is no store handle and may  *)
(* fail on a write error; ok is whether the write goes through.            *)

\* the CreateSession model: a title left out takes the field's default
CreateSessionPayload(user_id, title) ==
    << <<"user_id", user_id>>,
       <<"title", IF title = Absent THEN Str(DefaultTitle) ELSE title>> >>

\* variant of the response that echoes the request title
SessionResponseEcho(inserted_id, payload, data) ==
    << <<"id", inserted_id>>, <<"title", Get(payload, "title")>> >>

\* what create_session returns
SessionResponse(inserted_id, payload, data) ==
    << <<"id", inserted_id>>, <<"title", Get(data, "title")>> >>

\* POST /sessions
create_session(user_id, title, ok) ==
    LET payload == CreateSessionPayload(user_id, title)
        data == << <<"user_id", Get(payload, "user_id")>>,
                   <<"title", IF Truthy(Get(payload, "title"))
                              THEN Get(payload, "title")
                              ELSE Str(DefaultTitle)>>,
                   <<"sentiment", None>>,
                   <<"last_message_at", None>> >>
        req == << <<"user_id", user_id>>, <<"title", title>> >>
    IN  IF dbUp /\ ok
        THEN /\ session' = Append(session, StoredRecord(data))
             /\ nextId' = nextId + 1
             /\ last' = Response("create_session", 200, req,
                                 SessionResponse(StrOfId(Oid(nextId)), payload, data),
                                 NoAux)
             /\ UNCHANGED <<dbUp, message, document, pc, loc, issued>>
        ELSE /\ last' = Response("create_session", 500, <<>>, <<>>, NoAux)
             /\ UNCHANGED <<dbUp, session, message, document, nextId, pc, loc, issued>>

\* GET /sessions/{session_id}/messages
list_messages(session_id) ==
    LET req == << <<"session_id", session_id>> >>
    IN  /\ last' = IF dbUp
                   THEN Response("list_messages", 200, req,
                            SerializeAll(get_documents(message,
                                << <<"session_id", session_id>> >>, {})), NoAux)
                   ELSE Response("list_messages", 500, req, <<>>, NoAux)
        /\ UNCHANGED <<dbUp, session, message, document, nextId, pc, loc, issued>>

\* POST /messages
create_message(session_id, content, ok) ==
    LET msg == << <<"session_id", session_id>>,
                  <<"role", Str(<<"user">>)>>,
                  <<"content", Str(content)>>,
                  <<"sentiment", Str(<<simple_sentiment(content)>>)>>,
                  <<"emotions", None>> >>
        req == << <<"session_id", session_id>>, <<"content", Str(content)>> >>
    IN  IF dbUp /\ ok
        THEN /\ message' = Append(message, StoredRecord(msg))
             /\ nextId' = nextId + 1
             /\ last' = Response("create_message", 200, req,
                                 << <<"id", StrOfId(Oid(nextId))>> >>, NoAux)
             /\ issued' = Append(issued, StrOfId(Oid(nextId)))
             /\ UNCHANGED <<dbUp, session, document, pc, loc>>
        ELSE /\ last' = Response("create_message", 500, <<>>, <<>>, NoAux)
             /\ UNCHANGED <<dbUp, session, message, document, nextId, pc, loc, issued>>

\* POST /documents
add_document(user_id, ok) ==
    LET data == << <<"title", Str(<<"t">>)>>,
                   <<"text", Str(<<"x">>)>>,
                   <<"user_id", user_id>>,
                   <<"tags", List(<<>>)>>,
                   <<"source", None>> >>
    IN  IF dbUp /\ ok
        THEN /\ document' = Append(document, StoredRecord(data))
             /\ nextId' = nextId + 1
             /\ last' = Response("add_document", 200, data,
                                 << <<"id", StrOfId(Oid(nextId))>> >>, NoAux)
             /\ UNCHANGED <<dbUp, session, message, pc, loc, issued>>
        ELSE /\ last' = Response("add_document", 500, <<>>, <<>>, NoAux)
             /\ UNCHANGED <<dbUp, session, message, document, nextId, pc, loc, issued>>

\* variant of the filter that ignores user_id
DocumentFilterNone(user_id) == <<>>

\* the filter list_documents builds
DocumentFilter(user_id) ==
    IF Truthy(user_id) THEN << <<"user_id", user_id>> >> ELSE <<>>

\* GET /documents; limitArg is {} when the query has no limit
list_documents(user_id, limitArg) ==
    LET limit == IF limitArg = {} THEN DefaultLimit ELSE CHOOSE n \in limitArg : TRUE
        filt == DocumentFilter(user_id)
        req == << <<"user_id", user_id>> >>
    IN  /\ last' = IF dbUp
                   THEN Response("list_documents", 200, req,
                            SerializeAll(get_documents(document, filt, {limit})),
                            [NoAux EXCEPT !.limit = limit, !.omitted = (limitArg = {})])
                   ELSE Response("list_documents", 500, req, <<>>, NoAux)
        /\ UNCHANGED <<dbUp, session, message, document, nextId, pc, loc, issued>>

ReplyPrefix == <<"I", "'", "m", " ", "P", "h", "o", "e", "n", "i", "x", ",", " ",
                 "y", "o", "u", "r", " ", "a", "s", "s", "i", "s", "t", "a", "n",
                 "t", ".", " ", "I", " ", "u", "n", "d", "e", "r", "s", "t", "o",
                 "o", "d", ":", " ">>
ReplySuffix == <<".", " ", "H", "o", "w", " ", "w", "o", "u", "l", "d", " ", "y",
                 "o", "u", " ", "l", "i", "k", "e", " ", "m", "e", " ", "t", "o",
                 " ", "p", "r", "o", "c", "e", "e", "d", "?">>

ChatRequest(session_id, msg) ==
    << <<"session_id", session_id>>, <<"message", Str(msg)>>, <<"user_id", None>> >>

\* variant of the check that tests `is None` instead of truthiness
SessionIdIsNone(session_id) == session_id = None

\* the session_id check of chat()
SessionIdMissing(session_id) == ~Truthy(session_id)

\* POST /chat, up to the first insert
chat_begin(r, session_id, msg, ok) ==
    LET req == ChatRequest(session_id, msg)
        user_sent == simple_sentiment(msg)
        user_msg == << <<"session_id", session_id>>,
                       <<"role", Str(<<"user">>)>>,
                       <<"content", Str(msg)>>,
                       <<"sentiment", Str(<<user_sent>>)>>,
                       <<"emotions", None>> >>
    IN  /\ pc[r] = "idle"
        /\ IF SessionIdMissing(session_id)
           THEN /\ last' = Response("chat", 400, req,
                                    << <<"detail", Str(<<"session_id is required">>)>> >>,
                                    NoAux)
                /\ UNCHANGED <<dbUp, session, message, document, nextId, pc, loc, issued>>
           ELSE IF dbUp /\ ok
           THEN /\ message' = Append(message, StoredRecord(user_msg))
                /\ nextId' = nextId + 1
                /\ pc' = [pc EXCEPT ![r] = "insert_assistant"]
                /\ loc' = [loc EXCEPT ![r] =
                              [NoLocals EXCEPT !.payload = req,
                                               !.user_sent = user_sent,
                                               !.user_msg_id = StrOfId(Oid(nextId)),
                                               !.before = AllIds,
                                               !.inserted = <<Oid(nextId)>>]]
                /\ UNCHANGED <<dbUp, session, document, last, issued>>
           ELSE /\ last' = Response("chat", 500, <<>>, <<>>, NoAux)
                /\ UNCHANGED <<dbUp, session, message, document, nextId, pc, loc, issued>>

\* variant of the assistant record stored with role user
AssistantMsgAsUser(session_id, reply) ==
    << <<"session_id", session_id>>,
       <<"role", Str(<<"user">>)>>,
       <<"content", Str(reply)>>,
       <<"sentiment", Str(<<"neutral">>)>>,
       <<"emotions", List(<<"calm">>)>> >>

\* the record chat() stores for the assistant's turn
AssistantMsg(session_id, reply) ==
    << <<"session_id", session_id>>,
       <<"role", Str(<<"assistant">>)>>,
       <<"content", Str(reply)>>,
       <<"sentiment", Str(<<"neutral">>)>>,
       <<"emotions", List(<<"calm">>)>> >>

\* POST /chat, the reply and the second insert
chat_insert_assistant(r, ok) ==
    LET payload == loc[r].payload
        reply == ReplyPrefix \o Get(payload, "message").v \o ReplySuffix
        assistant_msg == AssistantMsg(Get(payload, "session_id"), reply)
    IN  /\ pc[r] = "insert_assistant"
        /\ IF dbUp /\ ok
           THEN /\ message' = Append(message, StoredRecord(assistant_msg))
                /\ nextId' = nextId + 1
                /\ pc' = [pc EXCEPT ![r] = "update_session"]
                /\ loc' = [loc EXCEPT ![r].reply = reply,
                                      ![r].assistant_msg_id = StrOfId(Oid(nextId)),
                                      ![r].inserted = Append(@, Oid(nextId))]
                /\ UNCHANGED <<dbUp, session, document, last, issued>>
           ELSE /\ last' = Response("chat", 500, <<>>, <<>>, NoAux)
                /\ pc' = [pc EXCEPT ![r] = "idle"]
                /\ loc' = [loc EXCEPT ![r] = NoLocals]
                /\ UNCHANGED <<dbUp, session, message, document, nextId, issued>>

\* the filter chat() passes to update_one: the conditional expression on
\* that line always takes its else branch
SessionUpdateFilter == << <<"_id", Exists(FALSE)>> >>

\* variant of the response that repeats the user message id
ChatResponseSameId(l) ==
    << <<"session_id", Get(l.payload, "session_id")>>,
       <<"user_message_id", l.user_msg_id>>,
       <<"assistant_message_id", l.user_msg_id>>,
       <<"assistant_reply", Str(l.reply)>>,
       <<"sentiment", Str(<<l.user_sent>>)>>,
       <<"emotions", List(<<"calm">>)>> >>

\* the body of the ChatResponse
ChatResponse(l) ==
    << <<"session_id", Get(l.payload, "session_id")>>,
       <<"user_message_id", l.user_msg_id>>,
       <<"assistant_message_id", l.assistant_msg_id>>,
       <<"assistant_reply", Str(l.reply)>>,
       <<"sentiment", Str(<<l.user_sent>>)>>,
       <<"emotions", List(<<"calm">>)>> >>

\* variant of chat_finish without the try/except around the update
chat_finish_nocatch(r, raises, now) ==
    LET l == loc[r]
        update == IF ~dbUp THEN "skipped" ELSE IF raises THEN "raised" ELSE "done"
        body == ChatResponse(l)
    IN  /\ pc[r] = "update_session"
        /\ session' = IF update = "done"
                      THEN update_one(session, SessionUpdateFilter,
                                      "last_message_at", Datetime(now))
                      ELSE session
        /\ last' = IF update = "raised"
                   THEN Response("chat", 500, <<>>, <<>>, NoAux)
                   ELSE Response("chat", 200, l.payload, body,
                            [NoAux EXCEPT !.before = l.before,
                                          !.inserted = l.inserted,
                                          !.update = update])
        /\ issued' = IF update = "raised" THEN issued
                     ELSE issued \o <<Get(body, "user_message_id"),
                                      Get(body, "assistant_message_id")>>
        /\ pc' = [pc EXCEPT ![r] = "idle"]
        /\ loc' = [loc EXCEPT ![r] = NoLocals]
        /\ UNCHANGED <<dbUp, message, document, nextId>>

\* variant of chat_finish whose update goes to the message collection, by session_id
chat_finish_wrong_collection(r, raises, now) ==
    LET l == loc[r]
        update == IF ~dbUp THEN "skipped" ELSE IF raises THEN "raised" ELSE "done"
        body == ChatResponse(l)
    IN  /\ pc[r] = "update_session"
        /\ session' = session
        /\ message' = IF update = "done"
                      THEN update_one(message,
                               << <<"session_id", Get(l.payload, "session_id")>> >>,
                               "last_message_at", Datetime(now))
                      ELSE message
        /\ last' = Response("chat", 200, l.payload, body,
                            [NoAux EXCEPT !.before = l.before,
                                          !.inserted = l.inserted,
                                          !.update = update])
        /\ issued' = issued \o <<Get(body, "user_message_id"),
                                 Get(body, "assistant_message_id")>>
        /\ pc' = [pc EXCEPT ![r] = "idle"]
        /\ loc' = [loc EXCEPT ![r] = NoLocals]
        /\ UNCHANGED <<dbUp, document, nextId>>

\* POST /chat, the session update and the return.  raises: update_one throws
chat_finish(r, raises, now) ==
    LET l == loc[r]
        update == IF ~dbUp THEN "skipped" ELSE IF raises THEN "raised" ELSE "done"
        body == ChatResponse(l)
    IN  /\ pc[r] = "update_session"
        /\ session' = IF update = "done"
                      THEN update_one(session, SessionUpdateFilter,
                                      "last_message_at", Datetime(now))
                      ELSE session
        /\ last' = Response("chat", 200, l.payload, body,
                            [NoAux EXCEPT !.before = l.before,
                                          !.inserted = l.inserted,
                                          !.update = update])
        /\ issued' = issued \o <<Get(body, "user_message_id"),
                                 Get(body, "assistant_message_id")>>
        /\ pc' = [pc EXCEPT ![r] = "idle"]
        /\ loc' = [loc EXCEPT ![r] = NoLocals]
        /\ UNCHANGED <<dbUp, message, document, nextId>>

----------------------------------------------------------------------------
(* Specifications *)

Init == InitStore /\ InitText /\ InitSer

\* a request is served by the first free worker
FreeWorker(r) == pc[r] = "idle" /\ \A q \in 1..(r - 1) : pc[q] # "idle"

CreateSession ==
    /\ nextId <= MaxIds
    /\ \E ok \in BOOLEAN : create_session(None, Absent, ok)
    /\ UNCHANGED <<textVars, serVars>>

ListMessages ==
    /\ \E sid \in SessionIds : list_messages(sid)
    /\ UNCHANGED <<textVars, serVars>>

CreateMessage ==
    /\ nextId <= MaxIds
    /\ \E c \in Texts, ok \in BOOLEAN : create_message(Str(<<"1">>), c, ok)
    /\ UNCHANGED <<textVars, serVars>>

ChatBegin ==
    /\ nextId <= MaxIds
    /\ \E r \in Chats, sid \in SessionIds, m \in Texts, ok \in BOOLEAN :
           FreeWorker(r) /\ chat_begin(r, sid, m, ok)
    /\ UNCHANGED <<textVars, serVars>>

ChatInsertAssistant ==
    /\ nextId <= MaxIds
    /\ \E r \in Chats, ok \in BOOLEAN : chat_insert_assistant(r, ok)
    /\ UNCHANGED <<textVars, serVars>>

ChatFinish ==
    /\ \E r \in Chats, raises \in BOOLEAN, now \in Times : chat_finish(r, raises, now)
    /\ UNCHANGED <<textVars, serVars>>

AddDocument ==
    /\ nextId <= MaxIds
    /\ \E ok \in BOOLEAN : add_document(None, ok)
    /\ UNCHANGED <<textVars, serVars>>

ListDocuments ==
    /\ list_documents(None, {})
    /\ UNCHANGED <<textVars, serVars>>

\* all six handlers over one store
Next ==
    \/ CreateSession
    \/ ListMessages
    \/ CreateMessage
    \/ ChatBegin
    \/ ChatInsertAssistant
    \/ ChatFinish
    \/ AddDocument
    \/ ListDocuments

Spec == Init /\ [][Next]_vars

InitUp == Init /\ dbUp

\* the session collection alone, every title and user_id
CreateSessionAny ==
    /\ Len(session) < MaxSessions
    /\ \E u \in UserIds, t \in Titles, ok \in BOOLEAN : create_session(u, t, ok)
    /\ UNCHANGED <<textVars, serVars>>

NextSessions == CreateSessionAny
SpecSessions == Init /\ [][NextSessions]_vars

\* the document collection alone, every user_id and limit
AddDocumentAny ==
    /\ Len(document) < MaxDocs
    /\ \E u \in UserIds, ok \in BOOLEAN : add_document(u, ok)
    /\ UNCHANGED <<textVars, serVars>>

ListDocumentsAny ==
    /\ \E u \in UserIds, l \in Limits : list_documents(u, l)
    /\ UNCHANGED <<textVars, serVars>>

NextDocs == AddDocumentAny \/ ListDocumentsAny
SpecDocs == Init /\ [][NextDocs]_vars

NextText == TypeFragment \/ Classify
SpecText == InitUp /\ [][NextText]_vars

NextSer == PutField \/ Serialize \/ SerializeAgain
SpecSer == InitUp /\ [][NextSer]_vars

----------------------------------------------------------------------------
(* Properties *)

Count(coll, P(_)) == Cardinality({i \in 1..Len(coll) : P(coll[i])})
ChatDone == last.op = "chat" /\ last.status = 200
NoDuplicates(q) == \A i, j \in 1..Len(q) : q[i] = q[j] => i = j
WithId(coll, id) == {i \in 1..Len(coll) : Get(coll[i], "_id") = id}

\* C1: a chat request with an empty session_id is answered 400 and the step
\* that answers it changes no collection.
C1_EmptySessionIdRejected ==
    [][(/\ last' # last
        /\ last'.op = "chat"
        /\ last'.req # <<>>
        /\ Get(last'.req, "session_id") = Str(<<>>))
       => (/\ last'.status = 400
           /\ session' = session
           /\ message' = message
           /\ document' = document)]_vars

C1_Witness ==
    /\ last.op = "chat"
    /\ last.status = 400
    /\ session # <<>>
    /\ message # <<>>

\* C2: no message id is returned twice by chat and create_message together,
\* and the two ids of a chat response differ and were in no collection when
\* the call began.
C2_FreshDistinctIds ==
    /\ NoDuplicates(issued)
    /\ ChatDone =>
          /\ Get(last.body, "user_message_id") # Get(last.body, "assistant_message_id")
          /\ Get(last.body, "user_message_id") \notin last.aux.before
          /\ Get(last.body, "assistant_message_id") \notin last.aux.before

C2_Witness ==
    /\ ChatDone
    /\ last.aux.before # {}
    /\ Len(issued) >= 3

\* C3: a chat call that has made both inserts returns 200 with the reply
\* built from its message, both ids and the user message's sentiment,
\* whatever becomes of the session update.
C3_UpdateFailureSwallowed ==
    [][\A r \in Chats :
          (pc[r] = "update_session" /\ pc'[r] # "update_session")
          => /\ last'.op = "chat"
             /\ last'.status = 200
             /\ Get(last'.body, "assistant_reply")
                    = Str(ReplyPrefix \o Get(loc[r].payload, "message").v \o ReplySuffix)
             /\ Get(last'.body, "user_message_id") = loc[r].user_msg_id
             /\ Get(last'.body, "assistant_message_id") = loc[r].assistant_msg_id
             /\ Get(last'.body, "sentiment") = Str(<<loc[r].user_sent>>)]_vars

C3_Witness == ChatDone /\ last.aux.update = "raised"

\* C4: the label is positive exactly when the lower-cased text holds a
\* positive keyword and no negative one, negative exactly when it holds a
\* negative keyword and no positive one, neutral otherwise.
Occurs(w, t) ==
    \E i \in 1..Len(t) :
        \A j \in 1..Len(w) : i + j - 1 <= Len(t) /\ t[i + j - 1] = w[j]
PosHits(t) == Cardinality({i \in 1..Len(pos) : Occurs(pos[i], t)})
NegHits(t) == Cardinality({i \in 1..Len(neg) : Occurs(neg[i], t)})

C4_SentimentRule ==
    label # NoLabel =>
        LET t == Lower(text)
            onlyPos == PosHits(t) >= 1 /\ NegHits(t) = 0
            onlyNeg == NegHits(t) >= 1 /\ PosHits(t) = 0
        IN  /\ label = "positive" <=> onlyPos
            /\ label = "negative" <=> onlyNeg
            /\ label = "neutral" <=> (~onlyPos /\ ~onlyNeg)

C4_Witness ==
    /\ label = "neutral"
    /\ PosHits(Lower(text)) >= 1
    /\ NegHits(Lower(text)) >= 1

\* C5: after a chat call for an existing session whose update ran without
\* failing, that session's last_message_at holds a timestamp.
C5_LastMessageAtWritten ==
    (ChatDone /\ last.aux.update = "done") =>
        \A i \in 1..Len(session) :
            StrOfId(Get(session[i], "_id")) = Get(last.req, "session_id")
            => Get(session[i], "last_message_at").tag = "dt"

C7_CreateSession ==
    [][(last' # last /\ last'.op = "create_session" /\ last'.status = 200)
       => /\ Len(session') = Len(session) + 1
          /\ SubSeq(session', 1, Len(session)) = session
          /\ LET rec == session'[Len(session')]
             IN  /\ Get(rec, "title") = Get(last'.body, "title")
                 /\ StrOfId(Get(rec, "_id")) = Get(last'.body, "id")
                 /\ Get(rec, "sentiment") = None
                 /\ Get(rec, "last_message_at") = None
                 /\ Get(last'.req, "title") = Absent
                        => Get(rec, "title") = Str(DefaultTitle)]_vars

C7_Witness ==
    /\ last.op = "create_session"
    /\ last.status = 200
    /\ Get(last.req, "title") = Absent
    /\ Get(last.body, "title") = Str(DefaultTitle)
    /\ Len(session) >= 2

\* C8: serializing a dict with no "_id" key and no timestamp value gives the
\* dict back, and serializing the result again gives it back again.
WireShaped(d) == ~Has(d, "_id") /\ \A i \in 1..Len(d) : d[i][2].tag # "dt"

C8_SerializeIdempotent ==
    (sout1 # NotRun /\ WireShaped(sdoc)) =>
        /\ DictEq(sout1, sdoc)
        /\ sout2 # NotRun => DictEq(sout2, sout1)

C8_Witness ==
    /\ sout2 # NotRun
    /\ WireShaped(sdoc)
    /\ Has(sdoc, "id")
    /\ \E i \in 1..Len(sdoc) : sdoc[i][2] = None

\* C9: a successful chat call has inserted exactly two message records, the
\* user's and then the assistant's, both with the request's session_id and
\* with the fields chat() gives them; the response carries the user
\* record's sentiment.
C9_ChatInsertsTwo ==
    ChatDone =>
        LET ins == last.aux.inserted
            sid == Get(last.req, "session_id")
            msg == Get(last.req, "message")
        IN  /\ Len(ins) = 2
            /\ Cardinality(WithId(message, ins[1])) = 1
            /\ Cardinality(WithId(message, ins[2])) = 1
            /\ WithId(session, ins[1]) \cup WithId(session, ins[2]) = {}
            /\ WithId(document, ins[1]) \cup WithId(document, ins[2]) = {}
            /\ LET iu == CHOOSE i \in WithId(message, ins[1]) : TRUE
                   ia == CHOOSE i \in WithId(message, ins[2]) : TRUE
                   um == message[iu]
                   am == message[ia]
               IN  /\ iu < ia
                   /\ Get(um, "session_id") = sid
                   /\ Get(um, "role") = Str(<<"user">>)
                   /\ Get(um, "content") = msg
                   /\ Get(um, "sentiment") = Str(<<simple_sentiment(msg.v)>>)
                   /\ Get(um, "emotions") = None
                   /\ Get(am, "session_id") = sid
                   /\ Get(am, "role") = Str(<<"assistant">>)
                   /\ Occurs(msg.v, Get(am, "content").v)
                   /\ Get(am, "content") = Get(last.body, "assistant_reply")
                   /\ Get(am, "sentiment") = Str(<<"neutral">>)
                   /\ Get(am, "emotions") = List(<<"calm">>)
                   /\ Get(last.body, "sentiment") = Get(um, "sentiment")

C9_Witness ==
    /\ ChatDone
    /\ Get(last.body, "sentiment") = Str(<<"negative">>)
    /\ Len(message) = 4

\* C10: no step removes a record or changes a record's identifier, and no
\* step changes a message record.
KeepsRecords(old, new) ==
    /\ Len(new) >= Len(old)
    /\ \A i \in 1..Len(old) : Get(new[i], "_id") = Get(old[i], "_id")

C10_AppendOnly ==
    [][/\ KeepsRecords(session, session')
       /\ KeepsRecords(message, message')
       /\ KeepsRecords(document, document')
       /\ \A i \in 1..Len(message) : message'[i] = message[i]]_vars

C10_Witness ==
    /\ ChatDone
    /\ last.aux.update = "done"
    /\ \E i \in 1..Len(session) :
           StrOfId(Get(session[i], "_id")) = Get(last.req, "session_id")
    /\ document # <<>>

====
